---- MODULE Spec2Model ----
(***************************************************************************)
(* Model of the bounded buffer of assign4 (buffer.h, buffer.cpp): a        *)
(* circular array guarded by one std::mutex and two condition variables.   *)
(*                                                                         *)
(* Spec      several threads call insert_item / remove_item directly on    *)
(*           one Buffer; each statement of the two functions is one step.  *)
(* FairSpec  the same with weak fairness on every thread's own steps.      *)
(* SpecSeq   one thread constructs, fills, drains, copies and assigns      *)
(*           Buffer objects; each call is one step.                        *)
(***************************************************************************)
EXTENDS Integers, Sequences, FiniteSets, TLC

\* ------------------------------------------------------------------ bounds
MaxCap == 2
NumProducers == 1
NumConsumers == 1
\* The insert_item calls the producers make between them, and the
\* remove_item calls the consumers make between them.
MaxItems == 2
\* The spurious wake-ups of one run.
MaxSpurious == 1
\* The operations the sequential client performs.
MaxSteps == 6

Producers == 1..NumProducers
Consumers == (NumProducers + 1)..(NumProducers + NumConsumers)
Threads == Producers \cup Consumers

\* The values inserted: the k-th insert_item call to start passes k, so every
\* inserted value is distinct.
Tags == 1..MaxItems

\* ------------------------------------------------------------- the heap
\* An int array obtained from new buffer_item[n] holds indeterminate values.
Uninit == -1
\* The value a read of an indeterminate int can produce: anything.
Junk == 0
Items == Tags \cup (1..MaxSteps) \cup {Junk}
ReadOutcomes(v) == IF v = Uninit THEN Items ELSE {v}

\* std::mutex with no owner.
NoThread == 0
\* No array: the items pointer of an object that does not exist.
NullAddr == 0
MaxAddr == 2
Addrs == 1..MaxAddr
\* The heap cell of an address that is not allocated.
Free == [live |-> FALSE, cells |-> << >>]

\* new buffer_item[n]
NewArray(n) == [live |-> TRUE, cells |-> [i \in 0..(n - 1) |-> Uninit]]
\* new returns an address that is not in use.
FreshAddr(h) == CHOOSE a \in Addrs : ~h[a].live /\ \A b \in Addrs : b < a => h[b].live

\* C++ integer remainder (truncating division), for a divisor > 0.
CMod(a, b) == IF a >= 0 THEN a % b ELSE 0 - ((0 - a) % b)

\* ------------------------------------------------------------ the object
BufIds == {"buffer", "copy"}
B == "buffer"

NoObj == [alive |-> FALSE, items |-> NullAddr, max_size |-> 0,
          current_count |-> 0, front_idx |-> 0, rear_idx |-> 0]

VARIABLES
    obj,         \* BufIds -> the fields of the Buffer object
    heap,        \* Addrs -> the array stored there, or Free
    mutex,       \* the thread that owns Buffer::mutex of "buffer", or NoThread
    empty_cond,  \* threads blocked in empty_cond.wait
    full_cond,   \* threads blocked in full_cond.wait
    pc,          \* Threads -> the statement the thread is at
    item,        \* Threads -> the item of the call (argument, or *item)
    inserted,    \* the values of the insert_item calls that returned, in order
    removed,     \* the values the remove_item calls returned, in order
    snap,        \* Threads -> what the thread saw when its call started
    wakeups,     \* the spurious wake-ups so far
    cl,          \* the sequential client: its status and what it did so far
    empty_slots, \* the value of the semaphore empty_slots of main.cpp
    full_slots,  \* the value of the semaphore full_slots
    mutex_lock,  \* the thread that owns the pthread mutex mutex_lock, or NoThread
    mainst,      \* the main thread: where it is, its arguments, what it started
    printed      \* Threads -> the output of the iteration the thread is in

\* The state of main.cpp's globals and of its main thread, and the output.
coord == <<empty_slots, full_slots, mutex_lock, mainst, printed>>

vars == <<obj, heap, mutex, empty_cond, full_cond, pc, item, inserted, removed, snap, wakeups, cl, coord>>

\* main has not run: nothing is initialised, nothing was started.
NoMain ==
    [pc |-> "start", args |-> << >>,
     sleep_time |-> 0, num_producers |-> 0, num_consumers |-> 0,
     sems |-> FALSE, producers |-> 0, consumers |-> 0, said |-> "", exit |-> -1]

\* Nothing printed: no item line, no buffer line begun.
NoPrint == [said |-> Junk, line |-> << >>, empty |-> FALSE, i |-> 0, index |-> 0]

NoCoord ==
    /\ empty_slots = 0
    /\ full_slots = 0
    /\ mutex_lock = NoThread
    /\ mainst = NoMain
    /\ printed = [t \in Threads |-> NoPrint]

\* Buffer::is_empty, Buffer::is_full
is_empty(o) == o.current_count = 0
is_full_AtOneMore(o) == o.current_count = o.max_size + 1
is_full(o) == o.current_count = o.max_size

\* Buffer::Buffer(int size): the fields, and the array at address a.
CtorObj_RearZero(size, a) ==
    [alive |-> TRUE, items |-> a, max_size |-> size,
     current_count |-> 0, front_idx |-> 0, rear_idx |-> 0]

CtorObj(size, a) ==
    [alive |-> TRUE, items |-> a, max_size |-> size,
     current_count |-> 0, front_idx |-> 0, rear_idx |-> -1]

\* The statements of insert_item after the wait loop.
AdvanceRear_Stay(o) == o
AdvanceRear(o) == [o EXCEPT !.rear_idx = CMod(o.rear_idx + 1, o.max_size)]
StoreItem_AtFront(o, arr, v) == [arr EXCEPT ![o.front_idx] = v]
StoreItem(o, arr, v) == [arr EXCEPT ![o.rear_idx] = v]
IncrCount(o) == [o EXCEPT !.current_count = o.current_count + 1]

\* The statements of remove_item after the wait loop.
FrontSlot_Rear(o) == o.rear_idx
FrontSlot(o) == o.front_idx
AdvanceFront_Stay(o) == o
AdvanceFront(o) == [o EXCEPT !.front_idx = CMod(o.front_idx + 1, o.max_size)]
DecrCount_ByTwo(o) == [o EXCEPT !.current_count = o.current_count - 2]
DecrCount(o) == [o EXCEPT !.current_count = o.current_count - 1]

\* Buffer::Buffer(const Buffer& other) and operator=: the fields are copied as
\* they are, the array is a new one at address a.
CopyObj_Shallow(other, a) ==
    [alive |-> TRUE, items |-> other.items, max_size |-> other.max_size,
     current_count |-> other.current_count,
     front_idx |-> other.front_idx, rear_idx |-> other.rear_idx]

CopyObj(other, a) ==
    [alive |-> TRUE, items |-> a, max_size |-> other.max_size,
     current_count |-> other.current_count,
     front_idx |-> other.front_idx, rear_idx |-> other.rear_idx]

\* A read of other.items[i]; outside a live array it is indeterminate.
Cell(cells, i) == IF i \in DOMAIN cells THEN cells[i] ELSE Uninit

\* for (i = 0, index = front_idx; i < current_count; i++)
\*     { items[i] = other.items[index]; index = (index + 1) % max_size; }
\* on the new array of the object o, whose other slots stay indeterminate.
CopyCells(o, from) ==
    [i \in 0..(o.max_size - 1) |->
        IF i < o.current_count
        THEN Cell(from, CMod(o.front_idx + i, o.max_size))
        ELSE Uninit]

\* The live items of an object in FIFO order, as print_buffer walks them.
RECURSIVE Walk(_, _, _, _)
Walk(arr, index, n, max) ==
    IF n = 0 THEN << >>
    ELSE <<arr[index]>> \o Walk(arr, CMod(index + 1, max), n - 1, max)
Contents(o, h) == Walk(h[o.items].cells, o.front_idx, o.current_count, o.max_size)

\* ---------------------------------------------------------------- ghosts
NoSnap == [blocked |-> FALSE, n |-> 0]
Range(s) == {s[i] : i \in 1..Len(s)}
InInsert == {p \in Producers : pc[p] # "idle"}
InRemove == {c \in Consumers : pc[c] # "idle"}
InsertsStarted == Len(inserted) + Cardinality(InInsert)
RemovesStarted == Len(removed) + Cardinality(InRemove)

\* The sequential client before it has done anything.
NoClient ==
    [status |-> "run", steps |-> 0,
     origin |-> [b \in BufIds |-> "none"],
     ins |-> [b \in BufIds |-> << >>],
     out |-> [b \in BufIds |-> << >>],
     nops |-> [b \in BufIds |-> 0],
     phase |-> [b \in BufIds |-> "fill"],
     fullSeen |-> [b \in BufIds |-> FALSE],
     ret |-> [b \in BufIds |-> "none"]]

\* ------------------------------------------------------------------ Init
Init ==
    /\ \E size \in 1..MaxCap :
          /\ obj = [b \in BufIds |-> IF b = B THEN CtorObj(size, 1) ELSE NoObj]
          /\ heap = [a \in Addrs |-> IF a = 1 THEN NewArray(size) ELSE Free]
    /\ mutex = NoThread
    /\ empty_cond = {}
    /\ full_cond = {}
    /\ pc = [t \in Threads |-> "idle"]
    /\ item = [t \in Threads |-> Junk]
    /\ inserted = << >>
    /\ removed = << >>
    /\ snap = [t \in Threads |-> NoSnap]
    /\ wakeups = 0
    /\ cl = NoClient
    /\ NoCoord

\* ----------------------------------------------------------- insert_item
\* A producer calls insert_item with its next value.
ins_call(t) ==
    /\ pc[t] = "idle"
    /\ InsertsStarted < MaxItems
    /\ pc' = [pc EXCEPT ![t] = "lock"]
    /\ item' = [item EXCEPT ![t] = InsertsStarted + 1]
    /\ snap' = [snap EXCEPT ![t] =
                  IF is_full(obj[B]) THEN [blocked |-> TRUE, n |-> Len(removed)]
                  ELSE NoSnap]
    /\ UNCHANGED <<obj, heap, mutex, empty_cond, full_cond, inserted, removed, wakeups, cl, coord>>

\* std::unique_lock lock(mutex), and the re-lock when wait returns.
ins_lock_NoRecheck(t) ==
    /\ \/ pc[t] = "lock"
       \/ pc[t] = "wait" /\ t \notin empty_cond
    /\ mutex = NoThread
    /\ mutex' = t
    /\ pc' = [pc EXCEPT ![t] = IF pc[t] = "wait" THEN "rear" ELSE "check"]
    /\ UNCHANGED <<obj, heap, empty_cond, full_cond, item, inserted, removed, snap, wakeups, cl, coord>>

ins_lock(t) ==
    /\ \/ pc[t] = "lock"
       \/ pc[t] = "wait" /\ t \notin empty_cond
    /\ mutex = NoThread
    /\ mutex' = t
    /\ pc' = [pc EXCEPT ![t] = "check"]
    /\ UNCHANGED <<obj, heap, empty_cond, full_cond, item, inserted, removed, snap, wakeups, cl, coord>>

\* while (is_full()) empty_cond.wait(lock): wait releases the mutex.
ins_check_NoWait(t) ==
    /\ pc[t] = "check"
    /\ pc' = [pc EXCEPT ![t] = "rear"]
    /\ UNCHANGED <<obj, heap, mutex, empty_cond, full_cond, item, inserted, removed, snap, wakeups, cl, coord>>

ins_check(t) ==
    /\ pc[t] = "check"
    /\ IF is_full(obj[B])
       THEN /\ empty_cond' = empty_cond \cup {t}
            /\ mutex' = NoThread
            /\ pc' = [pc EXCEPT ![t] = "wait"]
       ELSE /\ pc' = [pc EXCEPT ![t] = "rear"]
            /\ UNCHANGED <<mutex, empty_cond>>
    /\ UNCHANGED <<obj, heap, full_cond, item, inserted, removed, snap, wakeups, cl, coord>>

\* rear_idx = (rear_idx + 1) % max_size
ins_rear(t) ==
    /\ pc[t] = "rear"
    /\ obj' = [obj EXCEPT ![B] = AdvanceRear(obj[B])]
    /\ pc' = [pc EXCEPT ![t] = "store"]
    /\ UNCHANGED <<heap, mutex, empty_cond, full_cond, item, inserted, removed, snap, wakeups, cl, coord>>

\* items[rear_idx] = item
ins_store(t) ==
    /\ pc[t] = "store"
    /\ heap' = [heap EXCEPT ![obj[B].items].cells = StoreItem(obj[B], @, item[t])]
    /\ pc' = [pc EXCEPT ![t] = "incr"]
    /\ UNCHANGED <<obj, mutex, empty_cond, full_cond, item, inserted, removed, snap, wakeups, cl, coord>>

\* current_count++
ins_incr(t) ==
    /\ pc[t] = "incr"
    /\ obj' = [obj EXCEPT ![B] = IncrCount(obj[B])]
    /\ pc' = [pc EXCEPT ![t] = "notify"]
    /\ UNCHANGED <<heap, mutex, empty_cond, full_cond, item, inserted, removed, snap, wakeups, cl, coord>>

\* full_cond.notify_one(): one waiter, if there is any, stops waiting.
ins_notify_None(t) ==
    /\ pc[t] = "notify"
    /\ pc' = [pc EXCEPT ![t] = "ret"]
    /\ UNCHANGED <<obj, heap, mutex, empty_cond, full_cond, item, inserted, removed, snap, wakeups, cl, coord>>

ins_notify(t) ==
    /\ pc[t] = "notify"
    /\ \/ /\ full_cond = {}
          /\ UNCHANGED full_cond
       \/ \E w \in full_cond : full_cond' = full_cond \ {w}
    /\ pc' = [pc EXCEPT ![t] = "ret"]
    /\ UNCHANGED <<obj, heap, mutex, empty_cond, item, inserted, removed, snap, wakeups, cl, coord>>

\* return true: the unique_lock releases the mutex.
ins_return(t) ==
    /\ pc[t] = "ret"
    /\ mutex' = NoThread
    /\ inserted' = Append(inserted, item[t])
    /\ pc' = [pc EXCEPT ![t] = "idle"]
    /\ snap' = [snap EXCEPT ![t] = NoSnap]
    /\ UNCHANGED <<obj, heap, empty_cond, full_cond, item, removed, wakeups, cl, coord>>

\* ----------------------------------------------------------- remove_item
\* A consumer calls remove_item while values remain to be removed.
rem_call(t) ==
    /\ pc[t] = "idle"
    /\ RemovesStarted < MaxItems
    /\ pc' = [pc EXCEPT ![t] = "lock"]
    /\ item' = [item EXCEPT ![t] = Junk]
    /\ snap' = [snap EXCEPT ![t] =
                  IF is_empty(obj[B]) THEN [blocked |-> TRUE, n |-> Len(inserted)]
                  ELSE NoSnap]
    /\ UNCHANGED <<obj, heap, mutex, empty_cond, full_cond, inserted, removed, wakeups, cl, coord>>

rem_lock(t) ==
    /\ \/ pc[t] = "lock"
       \/ pc[t] = "wait" /\ t \notin full_cond
    /\ mutex = NoThread
    /\ mutex' = t
    /\ pc' = [pc EXCEPT ![t] = "check"]
    /\ UNCHANGED <<obj, heap, empty_cond, full_cond, item, inserted, removed, snap, wakeups, cl, coord>>

\* while (is_empty()) full_cond.wait(lock)
rem_check(t) ==
    /\ pc[t] = "check"
    /\ IF is_empty(obj[B])
       THEN /\ full_cond' = full_cond \cup {t}
            /\ mutex' = NoThread
            /\ pc' = [pc EXCEPT ![t] = "wait"]
       ELSE /\ pc' = [pc EXCEPT ![t] = "read"]
            /\ UNCHANGED <<mutex, full_cond>>
    /\ UNCHANGED <<obj, heap, empty_cond, item, inserted, removed, snap, wakeups, cl, coord>>

\* *item = items[front_idx]
rem_read(t) ==
    /\ pc[t] = "read"
    /\ \E v \in ReadOutcomes(heap[obj[B].items].cells[FrontSlot(obj[B])]) :
          item' = [item EXCEPT ![t] = v]
    /\ pc' = [pc EXCEPT ![t] = "front"]
    /\ UNCHANGED <<obj, heap, mutex, empty_cond, full_cond, inserted, removed, snap, wakeups, cl, coord>>

\* front_idx = (front_idx + 1) % max_size
rem_front(t) ==
    /\ pc[t] = "front"
    /\ obj' = [obj EXCEPT ![B] = AdvanceFront(obj[B])]
    /\ pc' = [pc EXCEPT ![t] = "decr"]
    /\ UNCHANGED <<heap, mutex, empty_cond, full_cond, item, inserted, removed, snap, wakeups, cl, coord>>

\* current_count--
rem_decr(t) ==
    /\ pc[t] = "decr"
    /\ obj' = [obj EXCEPT ![B] = DecrCount(obj[B])]
    /\ pc' = [pc EXCEPT ![t] = "notify"]
    /\ UNCHANGED <<heap, mutex, empty_cond, full_cond, item, inserted, removed, snap, wakeups, cl, coord>>

\* empty_cond.notify_one()
rem_notify_None(t) ==
    /\ pc[t] = "notify"
    /\ pc' = [pc EXCEPT ![t] = "ret"]
    /\ UNCHANGED <<obj, heap, mutex, empty_cond, full_cond, item, inserted, removed, snap, wakeups, cl, coord>>

rem_notify(t) ==
    /\ pc[t] = "notify"
    /\ \/ /\ empty_cond = {}
          /\ UNCHANGED empty_cond
       \/ \E w \in empty_cond : empty_cond' = empty_cond \ {w}
    /\ pc' = [pc EXCEPT ![t] = "ret"]
    /\ UNCHANGED <<obj, heap, mutex, full_cond, item, inserted, removed, snap, wakeups, cl, coord>>

\* return true
rem_return(t) ==
    /\ pc[t] = "ret"
    /\ mutex' = NoThread
    /\ removed' = Append(removed, item[t])
    /\ pc' = [pc EXCEPT ![t] = "idle"]
    /\ snap' = [snap EXCEPT ![t] = NoSnap]
    /\ UNCHANGED <<obj, heap, empty_cond, full_cond, item, inserted, wakeups, cl, coord>>

\* ------------------------------------------------------ spurious wake-up
\* condition_variable::wait may return without a notification.
spurious(t) ==
    /\ pc[t] = "wait"
    /\ wakeups < MaxSpurious
    /\ wakeups' = wakeups + 1
    /\ \/ /\ t \in empty_cond
          /\ empty_cond' = empty_cond \ {t}
          /\ UNCHANGED full_cond
       \/ /\ t \in full_cond
          /\ full_cond' = full_cond \ {t}
          /\ UNCHANGED empty_cond
    /\ UNCHANGED <<obj, heap, mutex, pc, item, inserted, removed, snap, cl, coord>>

\* ------------------------------------------------------------------ Next
ProducerStep(t) ==
    \/ ins_call(t)
    \/ ins_lock(t)
    \/ ins_check(t)
    \/ ins_rear(t)
    \/ ins_store(t)
    \/ ins_incr(t)
    \/ ins_notify(t)
    \/ ins_return(t)

ConsumerStep(t) ==
    \/ rem_call(t)
    \/ rem_lock(t)
    \/ rem_check(t)
    \/ rem_read(t)
    \/ rem_front(t)
    \/ rem_decr(t)
    \/ rem_notify(t)
    \/ rem_return(t)

Next ==
    \/ \E t \in Producers : ProducerStep(t)
    \/ \E t \in Consumers : ConsumerStep(t)
    \/ \E t \in Threads : spurious(t)

Spec == Init /\ [][Next]_vars

\* Every thread that can take a step of its own eventually does; a spurious
\* wake-up is never owed.
FairSpec ==
    /\ Spec
    /\ \A t \in Producers : WF_vars(ProducerStep(t))
    /\ \A t \in Consumers : WF_vars(ConsumerStep(t))

\* ================================================== the sequential client
\* One thread constructs a Buffer, calls insert_item and remove_item on it,
\* copies it and assigns it. A call is one step: nothing else runs.
Other(b) == IF b = B THEN "copy" ELSE B
CtorSizes == (0 - 1)..MaxCap
PendingOf(b) == SubSeq(cl.ins[b], Len(cl.out[b]) + 1, Len(cl.ins[b]))
CanStep == cl.status = "run" /\ cl.steps < MaxSteps
HasFree(h) == \E a \in Addrs : ~h[a].live

InitSeq ==
    /\ obj = [b \in BufIds |-> NoObj]
    /\ heap = [a \in Addrs |-> Free]
    /\ mutex = NoThread
    /\ empty_cond = {}
    /\ full_cond = {}
    /\ pc = [t \in Threads |-> "idle"]
    /\ item = [t \in Threads |-> Junk]
    /\ inserted = << >>
    /\ removed = << >>
    /\ snap = [t \in Threads |-> NoSnap]
    /\ wakeups = 0
    /\ cl = NoClient
    /\ NoCoord

conc == <<mutex, empty_cond, full_cond, pc, item, inserted, removed, snap, wakeups, coord>>

\* Buffer buffer(size): new buffer_item[size] throws std::bad_array_new_length
\* for a negative size, and nothing catches it.
seq_ctor(size) ==
    /\ CanStep
    /\ ~obj[B].alive
    /\ HasFree(heap)
    /\ IF size < 0
       THEN /\ cl' = [cl EXCEPT !.status = "thrown", !.steps = @ + 1]
            /\ UNCHANGED <<obj, heap>>
       ELSE LET a == FreshAddr(heap) IN
            /\ obj' = [obj EXCEPT ![B] = CtorObj(size, a)]
            /\ heap' = [heap EXCEPT ![a] = NewArray(size)]
            /\ cl' = [cl EXCEPT !.steps = @ + 1, !.origin[B] = "ctor"]
    /\ UNCHANGED conc

\* insert_item(v) on b. On a full buffer the only thread waits for ever.
seq_insert(b) ==
    /\ CanStep
    /\ obj[b].alive
    /\ IF is_full(obj[b])
       THEN /\ cl' = [cl EXCEPT !.status = "blocked", !.steps = @ + 1]
            /\ UNCHANGED <<obj, heap>>
       ELSE LET v == cl.steps + 1
                o1 == AdvanceRear(obj[b])
            IN  /\ heap' = [heap EXCEPT ![o1.items].cells = StoreItem(o1, @, v)]
                /\ obj' = [obj EXCEPT ![b] = IncrCount(o1)]
                /\ cl' = [cl EXCEPT !.steps = @ + 1,
                                    !.ins[b] = Append(@, v),
                                    !.nops[b] = @ + 1,
                                    !.phase[b] = IF @ = "fill" THEN "fill" ELSE "mixed",
                                    !.ret[b] = "true"]
    /\ UNCHANGED conc

\* remove_item(&x) on b. On an empty buffer the only thread waits for ever.
seq_remove(b) ==
    /\ CanStep
    /\ obj[b].alive
    /\ IF is_empty(obj[b])
       THEN /\ cl' = [cl EXCEPT !.status = "blocked", !.steps = @ + 1]
            /\ UNCHANGED <<obj, heap>>
       ELSE \E v \in ReadOutcomes(Cell(heap[obj[b].items].cells, FrontSlot(obj[b]))) :
            LET o2 == DecrCount(AdvanceFront(obj[b])) IN
            /\ obj' = [obj EXCEPT ![b] = o2]
            /\ cl' = [cl EXCEPT !.steps = @ + 1,
                                !.out[b] = Append(@, v),
                                !.nops[b] = @ + 1,
                                !.phase[b] = IF @ = "drain" \/ (@ = "fill" /\ is_full(obj[b]))
                                             THEN "drain" ELSE "mixed",
                                !.fullSeen[b] = @ \/ is_full(o2),
                                !.ret[b] = "true"]
            /\ UNCHANGED heap
    /\ UNCHANGED conc

\* What the client expects of dst once it is a copy of src.
Copied(dst, src) ==
    [cl EXCEPT !.steps = @ + 1,
               !.origin[dst] = "copy",
               !.ins[dst] = PendingOf(src),
               !.out[dst] = << >>,
               !.nops[dst] = 0,
               !.phase[dst] = "mixed",
               !.fullSeen[dst] = FALSE,
               !.ret[dst] = "none"]

\* Buffer copy(buffer)
seq_copy ==
    /\ CanStep
    /\ obj[B].alive
    /\ ~obj["copy"].alive
    /\ HasFree(heap)
    /\ LET a == FreshAddr(heap)
           o == CopyObj(obj[B], a)
       IN  /\ obj' = [obj EXCEPT !["copy"] = o]
           /\ heap' = [heap EXCEPT ![a] =
                         [live |-> TRUE, cells |-> CopyCells(o, heap[obj[B].items].cells)]]
    /\ cl' = Copied("copy", B)
    /\ UNCHANGED conc

\* dst = src
seq_assign(dst, src) ==
    /\ CanStep
    /\ obj[dst].alive
    /\ obj[src].alive
    /\ IF dst = src
       THEN /\ cl' = [cl EXCEPT !.steps = @ + 1]
            /\ UNCHANGED <<obj, heap>>
       ELSE LET h1 == [heap EXCEPT ![obj[dst].items] = Free]
                a == FreshAddr(h1)
                o == CopyObj(obj[src], a)
            IN  /\ obj' = [obj EXCEPT ![dst] = o]
                /\ heap' = [h1 EXCEPT ![a] =
                              [live |-> TRUE, cells |-> CopyCells(o, h1[obj[src].items].cells)]]
                /\ cl' = Copied(dst, src)
    /\ UNCHANGED conc

NextSeq ==
    \/ \E size \in CtorSizes : seq_ctor(size)
    \/ \E b \in BufIds : seq_insert(b)
    \/ \E b \in BufIds : seq_remove(b)
    \/ seq_copy
    \/ \E dst \in BufIds, src \in BufIds : seq_assign(dst, src)

SpecSeq == InitSeq /\ [][NextSeq]_vars

\* ================================================= the coordination layer
\* main.cpp: producer and consumer threads use the global Buffer buffer(5)
\* under the semaphores empty_slots and full_slots and the pthread mutex
\* mutex_lock. Inside insert_item and remove_item a thread takes the steps of
\* the buffer above; a statement of main.cpp is one step.
BufferSize == 5

\* The statements at which a thread is between pthread_mutex_lock and
\* pthread_mutex_unlock.
InsideRegion ==
    {"lock", "check", "wait", "rear", "store", "incr",
     "read", "front", "decr", "notify", "ret", "print", "print_loop", "unlock"}
\* The statements inside insert_item or remove_item.
InsideCall == {"lock", "check", "wait", "rear", "store", "incr",
               "read", "front", "decr", "notify", "ret"}

\* The state main leaves behind once it has initialised the semaphores and
\* the mutex and created every thread: each thread is about to sleep.
InitCoord ==
    /\ obj = [b \in BufIds |-> IF b = B THEN CtorObj(BufferSize, 1) ELSE NoObj]
    /\ heap = [a \in Addrs |-> IF a = 1 THEN NewArray(BufferSize) ELSE Free]
    /\ mutex = NoThread
    /\ empty_cond = {}
    /\ full_cond = {}
    /\ pc = [t \in Threads |-> "sleep"]
    /\ item = [t \in Threads |-> IF t \in Producers THEN t ELSE Junk]
    /\ inserted = << >>
    /\ removed = << >>
    /\ snap = [t \in Threads |-> NoSnap]
    /\ wakeups = 0
    /\ cl = NoClient
    /\ empty_slots = BufferSize
    /\ full_slots = 0
    /\ mutex_lock = NoThread
    /\ mainst = [NoMain EXCEPT !.pc = "sleep", !.sems = TRUE,
                               !.num_producers = NumProducers,
                               !.num_consumers = NumConsumers,
                               !.producers = NumProducers,
                               !.consumers = NumConsumers]
    /\ printed = [t \in Threads |-> NoPrint]

buf == <<obj, heap, mutex, empty_cond, full_cond>>
ghost == <<inserted, removed, snap, wakeups, cl>>

\* usleep(rand() % 1000000) returns.
u_usleep(t) ==
    /\ pc[t] = "sleep"
    /\ pc' = [pc EXCEPT ![t] = "sem_wait"]
    /\ UNCHANGED <<buf, item, ghost, coord>>

\* pthread_mutex_lock(&mutex_lock) returns; the thread's next statement is the
\* first of insert_item or remove_item.
u_mutex_lock_NoExclusion(t) ==
    /\ pc[t] = "mutex_lock"
    /\ mutex_lock' = t
    /\ pc' = [pc EXCEPT ![t] = "lock"]
    /\ UNCHANGED <<buf, item, ghost, empty_slots, full_slots, mainst, printed>>

u_mutex_lock(t) ==
    /\ pc[t] = "mutex_lock"
    /\ mutex_lock = NoThread
    /\ mutex_lock' = t
    /\ pc' = [pc EXCEPT ![t] = "lock"]
    /\ UNCHANGED <<buf, item, ghost, empty_slots, full_slots, mainst, printed>>

\* return true: the unique_lock releases the buffer's mutex.
u_ret_Unlocks(t) ==
    /\ pc[t] = "ret"
    /\ mutex' = NoThread
    /\ mutex_lock' = NoThread
    /\ pc' = [pc EXCEPT ![t] = "print"]
    /\ UNCHANGED <<obj, heap, empty_cond, full_cond, item, ghost,
                   empty_slots, full_slots, mainst, printed>>

u_ret(t) ==
    /\ pc[t] = "ret"
    /\ mutex' = NoThread
    /\ pc' = [pc EXCEPT ![t] = "print"]
    /\ UNCHANGED <<obj, heap, empty_cond, full_cond, item, ghost, coord>>

\* cout << ...; buffer.print_buffer()
u_print(t) ==
    /\ pc[t] = "print"
    /\ pc' = [pc EXCEPT ![t] = "unlock"]
    /\ UNCHANGED <<buf, item, ghost, coord>>

\* pthread_mutex_unlock(&mutex_lock). The output of the iteration is complete:
\* its record is cleared.
u_mutex_unlock_Kept(t) ==
    /\ pc[t] = "unlock"
    /\ pc' = [pc EXCEPT ![t] = "post"]
    /\ UNCHANGED <<buf, item, ghost, coord>>

u_mutex_unlock(t) ==
    /\ pc[t] = "unlock"
    /\ mutex_lock' = NoThread
    /\ pc' = [pc EXCEPT ![t] = "post"]
    /\ printed' = [printed EXCEPT ![t] = NoPrint]
    /\ UNCHANGED <<buf, item, ghost, empty_slots, full_slots, mainst>>

\* sem_wait(&empty_slots)
p_sem_wait_NoBlock(t) ==
    /\ pc[t] = "sem_wait"
    /\ empty_slots' = empty_slots - 1
    /\ pc' = [pc EXCEPT ![t] = "mutex_lock"]
    /\ UNCHANGED <<buf, item, ghost, full_slots, mutex_lock, mainst, printed>>

p_sem_wait_NoDecrement(t) ==
    /\ pc[t] = "sem_wait"
    /\ empty_slots > 0
    /\ pc' = [pc EXCEPT ![t] = "mutex_lock"]
    /\ UNCHANGED <<buf, item, ghost, coord>>

p_sem_wait(t) ==
    /\ pc[t] = "sem_wait"
    /\ empty_slots > 0
    /\ empty_slots' = empty_slots - 1
    /\ pc' = [pc EXCEPT ![t] = "mutex_lock"]
    /\ UNCHANGED <<buf, item, ghost, full_slots, mutex_lock, mainst, printed>>

\* sem_post(&full_slots)
p_sem_post_Twice(t) ==
    /\ pc[t] = "post"
    /\ full_slots' = full_slots + 2
    /\ pc' = [pc EXCEPT ![t] = "sleep"]
    /\ UNCHANGED <<buf, item, ghost, empty_slots, mutex_lock, mainst, printed>>

p_sem_post(t) ==
    /\ pc[t] = "post"
    /\ full_slots' = full_slots + 1
    /\ pc' = [pc EXCEPT ![t] = "sleep"]
    /\ UNCHANGED <<buf, item, ghost, empty_slots, mutex_lock, mainst, printed>>

\* sem_wait(&full_slots)
c_sem_wait_NoBlock(t) ==
    /\ pc[t] = "sem_wait"
    /\ full_slots' = full_slots - 1
    /\ pc' = [pc EXCEPT ![t] = "mutex_lock"]
    /\ UNCHANGED <<buf, item, ghost, empty_slots, mutex_lock, mainst, printed>>

c_sem_wait(t) ==
    /\ pc[t] = "sem_wait"
    /\ full_slots > 0
    /\ full_slots' = full_slots - 1
    /\ pc' = [pc EXCEPT ![t] = "mutex_lock"]
    /\ UNCHANGED <<buf, item, ghost, empty_slots, mutex_lock, mainst, printed>>

\* sem_post(&empty_slots) ends the iteration. The item removed has been
\* printed and the next remove_item overwrites it before it is read again:
\* its value is dropped here.
c_sem_post_None(t) ==
    /\ pc[t] = "post"
    /\ pc' = [pc EXCEPT ![t] = "sleep"]
    /\ item' = [item EXCEPT ![t] = Junk]
    /\ UNCHANGED <<buf, ghost, coord>>

c_sem_post(t) ==
    /\ pc[t] = "post"
    /\ empty_slots' = empty_slots + 1
    /\ pc' = [pc EXCEPT ![t] = "sleep"]
    /\ item' = [item EXCEPT ![t] = Junk]
    /\ UNCHANGED <<buf, ghost, full_slots, mutex_lock, mainst, printed>>

\* One step of the thread running producer().
producer(t) ==
    \/ u_usleep(t)
    \/ p_sem_wait(t)
    \/ u_mutex_lock(t)
    \/ ins_lock(t)
    \/ ins_check(t)
    \/ ins_rear(t)
    \/ ins_store(t)
    \/ ins_incr(t)
    \/ ins_notify(t)
    \/ u_ret(t)
    \/ u_print(t)
    \/ u_mutex_unlock(t)
    \/ p_sem_post(t)

\* One step of the thread running consumer().
consumer(t) ==
    \/ u_usleep(t)
    \/ c_sem_wait(t)
    \/ u_mutex_lock(t)
    \/ rem_lock(t)
    \/ rem_check(t)
    \/ rem_read(t)
    \/ rem_front(t)
    \/ rem_decr(t)
    \/ rem_notify(t)
    \/ u_ret(t)
    \/ u_print(t)
    \/ u_mutex_unlock(t)
    \/ c_sem_post(t)

NextCoord ==
    \/ \E t \in Producers : producer(t)
    \/ \E t \in Consumers : consumer(t)

SpecCoord == InitCoord /\ [][NextCoord]_vars

\* Every thread that can take a step eventually takes one.
FairCoord ==
    /\ SpecCoord
    /\ \A t \in Producers : WF_vars(producer(t))
    /\ \A t \in Consumers : WF_vars(consumer(t))

\* =================================================================== main
\* main.cpp's main, one statement a step. args is argv[1..argc-1], each
\* argument a sequence of characters; the threads main creates are counted,
\* their steps are those of SpecCoord.
ArgStrings ==
    {<< >>, <<"1">>, <<"2">>, <<"1", "0">>, <<"-", "1">>, <<"x">>, <<"2", "x">>}

ArgLists == UNION {[1..n -> ArgStrings] : n \in 0..4}

argc(m) == Len(m.args) + 1

Digits == {"0", "1", "2", "3", "4", "5", "6", "7", "8", "9"}

DigitValue(c) ==
    CASE c = "0" -> 0 [] c = "1" -> 1 [] c = "2" -> 2 [] c = "3" -> 3
      [] c = "4" -> 4 [] c = "5" -> 5 [] c = "6" -> 6 [] c = "7" -> 7
      [] c = "8" -> 8 [] c = "9" -> 9

\* The value of the longest prefix of digits of str, after the digits read so
\* far have given acc.
RECURSIVE AtoiDigits(_, _)
AtoiDigits(str, acc) ==
    IF str = << >> \/ Head(str) \notin Digits
    THEN acc
    ELSE AtoiDigits(Tail(str), 10 * acc + DigitValue(Head(str)))

\* atoi: an optional sign, then the digits up to the first other character; 0
\* when there is no digit.
atoi(str) ==
    IF str # << >> /\ Head(str) = "-" THEN 0 - AtoiDigits(Tail(str), 0)
    ELSE IF str # << >> /\ Head(str) = "+" THEN AtoiDigits(Tail(str), 0)
    ELSE AtoiDigits(str, 0)

\* The global buffer is constructed before main is entered.
InitMain ==
    /\ obj = [b \in BufIds |-> IF b = B THEN CtorObj(BufferSize, 1) ELSE NoObj]
    /\ heap = [a \in Addrs |-> IF a = 1 THEN NewArray(BufferSize) ELSE Free]
    /\ mutex = NoThread
    /\ empty_cond = {}
    /\ full_cond = {}
    /\ pc = [t \in Threads |-> "idle"]
    /\ item = [t \in Threads |-> Junk]
    /\ inserted = << >>
    /\ removed = << >>
    /\ snap = [t \in Threads |-> NoSnap]
    /\ wakeups = 0
    /\ cl = NoClient
    /\ empty_slots = 0
    /\ full_slots = 0
    /\ mutex_lock = NoThread
    /\ \E a \in ArgLists : mainst = [NoMain EXCEPT !.args = a]
    /\ printed = [t \in Threads |-> NoPrint]

rest == <<obj, heap, mutex, empty_cond, full_cond, pc, item, ghost>>

\* if (argc != 4) { cout << "Usage: ..."; return 1; }
m_check_argc ==
    /\ mainst.pc = "start"
    /\ mainst' = IF argc(mainst) # 4
                 THEN [mainst EXCEPT !.pc = "exited", !.said = "usage", !.exit = 1]
                 ELSE [mainst EXCEPT !.pc = "parse"]
    /\ UNCHANGED <<rest, empty_slots, full_slots, mutex_lock, printed>>

\* sleep_time = atoi(argv[1]); num_producers = atoi(argv[2]); ...
m_parse ==
    /\ mainst.pc = "parse"
    /\ mainst' = [mainst EXCEPT !.pc = "sem_init",
                                !.sleep_time = atoi(mainst.args[1]),
                                !.num_producers = atoi(mainst.args[2]),
                                !.num_consumers = atoi(mainst.args[3])]
    /\ UNCHANGED <<rest, empty_slots, full_slots, mutex_lock, printed>>

\* sem_init(&empty_slots, 0, buffer.get_size()); sem_init(&full_slots, 0, 0);
\* pthread_mutex_init(&mutex_lock, NULL)
m_sem_init ==
    /\ mainst.pc = "sem_init"
    /\ empty_slots' = obj[B].max_size
    /\ full_slots' = 0
    /\ mutex_lock' = NoThread
    /\ mainst' = [mainst EXCEPT !.pc = "arrays", !.sems = TRUE]
    /\ UNCHANGED <<rest, printed>>

\* pthread_t producers[num_producers], consumers[num_consumers]: an array of
\* negative length is undefined; the program crashes or goes on.
m_arrays ==
    /\ mainst.pc = "arrays"
    /\ \/ mainst' = [mainst EXCEPT !.pc = "create_producers"]
       \/ /\ mainst.num_producers < 0 \/ mainst.num_consumers < 0
          /\ mainst' = [mainst EXCEPT !.pc = "crashed"]
    /\ UNCHANGED <<rest, empty_slots, full_slots, mutex_lock, printed>>

\* for (int i = 0; i < num_producers; i++) pthread_create(.., producer, ..)
m_create_producer ==
    /\ mainst.pc = "create_producers"
    /\ mainst' = IF mainst.producers < mainst.num_producers
                 THEN [mainst EXCEPT !.producers = @ + 1]
                 ELSE [mainst EXCEPT !.pc = "create_consumers"]
    /\ UNCHANGED <<rest, empty_slots, full_slots, mutex_lock, printed>>

\* for (int j = 0; j < num_consumers; j++) pthread_create(.., consumer, NULL)
m_create_consumer ==
    /\ mainst.pc = "create_consumers"
    /\ mainst' = IF mainst.consumers < mainst.num_consumers
                 THEN [mainst EXCEPT !.consumers = @ + 1]
                 ELSE [mainst EXCEPT !.pc = "sleep"]
    /\ UNCHANGED <<rest, empty_slots, full_slots, mutex_lock, printed>>

\* sleep(sleep_time); cout << "Main thread: Time's up! ..."
m_sleep ==
    /\ mainst.pc = "sleep"
    /\ mainst' = [mainst EXCEPT !.pc = "destroy", !.said = "time's up"]
    /\ UNCHANGED <<rest, empty_slots, full_slots, mutex_lock, printed>>

\* sem_destroy(&empty_slots); sem_destroy(&full_slots);
\* pthread_mutex_destroy(&mutex_lock)
m_destroy ==
    /\ mainst.pc = "destroy"
    /\ mainst' = [mainst EXCEPT !.pc = "return", !.sems = FALSE]
    /\ UNCHANGED <<rest, empty_slots, full_slots, mutex_lock, printed>>

\* return 0: the process ends, and with it every thread.
m_return ==
    /\ mainst.pc = "return"
    /\ mainst' = [mainst EXCEPT !.pc = "exited", !.exit = 0]
    /\ UNCHANGED <<rest, empty_slots, full_slots, mutex_lock, printed>>

NextMain ==
    \/ m_check_argc
    \/ m_parse
    \/ m_sem_init
    \/ m_arrays
    \/ m_create_producer
    \/ m_create_consumer
    \/ m_sleep
    \/ m_destroy
    \/ m_return

SpecMain == InitMain /\ [][NextMain]_vars

\* ================================================================ the run
\* main creates the threads one by one while those already created run.
\* Thread i of Producers is the producer main creates with id i; the j-th
\* thread of Consumers is the j-th consumer it creates.
\* The numbers of producers and consumers of a run: one kind only, or one
\* thread of each kind.
RunShapes ==
    {<<n, 0>> : n \in 1..NumProducers}
        \cup {<<0, m>> : m \in 1..NumConsumers}
        \cup {<<1, 1>>}

\* main has parsed its arguments and initialised the semaphores and the
\* mutex; no thread exists yet.
InitRun ==
    /\ obj = [b \in BufIds |-> IF b = B THEN CtorObj(BufferSize, 1) ELSE NoObj]
    /\ heap = [a \in Addrs |-> IF a = 1 THEN NewArray(BufferSize) ELSE Free]
    /\ mutex = NoThread
    /\ empty_cond = {}
    /\ full_cond = {}
    /\ pc = [t \in Threads |-> "idle"]
    /\ item = [t \in Threads |-> Junk]
    /\ inserted = << >>
    /\ removed = << >>
    /\ snap = [t \in Threads |-> NoSnap]
    /\ wakeups = 0
    /\ cl = NoClient
    /\ empty_slots = BufferSize
    /\ full_slots = 0
    /\ mutex_lock = NoThread
    /\ \E shape \in RunShapes :
          mainst = [NoMain EXCEPT !.pc = "create_producers", !.sems = TRUE,
                                  !.num_producers = shape[1],
                                  !.num_consumers = shape[2]]
    /\ printed = [t \in Threads |-> NoPrint]

\* for (int i = 0; i < num_producers; i++) pthread_create(.., producer, id):
\* the new thread has item = producer_id and is about to sleep.
r_create_producer ==
    /\ mainst.pc = "create_producers"
    /\ IF mainst.producers < mainst.num_producers
       THEN LET t == mainst.producers + 1 IN
            /\ mainst' = [mainst EXCEPT !.producers = t]
            /\ pc' = [pc EXCEPT ![t] = "sleep"]
            /\ item' = [item EXCEPT ![t] = t]
       ELSE /\ mainst' = [mainst EXCEPT !.pc = "create_consumers"]
            /\ UNCHANGED <<pc, item>>
    /\ UNCHANGED <<buf, ghost, empty_slots, full_slots, mutex_lock, printed>>

\* for (int j = 0; j < num_consumers; j++) pthread_create(.., consumer, NULL)
r_create_consumer ==
    /\ mainst.pc = "create_consumers"
    /\ IF mainst.consumers < mainst.num_consumers
       THEN LET t == NumProducers + mainst.consumers + 1 IN
            /\ mainst' = [mainst EXCEPT !.consumers = @ + 1]
            /\ pc' = [pc EXCEPT ![t] = "sleep"]
       ELSE /\ mainst' = [mainst EXCEPT !.pc = "sleep"]
            /\ UNCHANGED pc
    /\ UNCHANGED <<buf, item, ghost, empty_slots, full_slots, mutex_lock, printed>>

\* One step of main before its sleep ends.
main_create ==
    \/ r_create_producer
    \/ r_create_consumer

NextRun ==
    \/ main_create
    \/ \E t \in Producers : producer(t)
    \/ \E t \in Consumers : consumer(t)

SpecRun == InitRun /\ [][NextRun]_vars

\* main and every created thread that can take a step eventually take one.
FairRun ==
    /\ SpecRun
    /\ WF_vars(main_create)
    /\ \A t \in Producers : WF_vars(producer(t))
    /\ \A t \in Consumers : WF_vars(consumer(t))

\* ============================================================ the printing
\* The coordination layer with the output of each iteration recorded and
\* Buffer::print_buffer taken one read at a time: it reads current_count,
\* front_idx, max_size and the slots without locking the buffer's mutex.

\* cout << "... item " << item << endl, then print_buffer up to its loop:
\* if (is_empty()) the empty marker is printed, else the loop starts with
\* i = 0, index = front_idx.
pr_begin(t) ==
    /\ pc[t] = "print"
    /\ IF is_empty(obj[B])
       THEN /\ printed' = [printed EXCEPT ![t] = [NoPrint EXCEPT !.said = item[t],
                                                                  !.empty = TRUE]]
            /\ pc' = [pc EXCEPT ![t] = "unlock"]
       ELSE /\ printed' = [printed EXCEPT ![t] = [NoPrint EXCEPT !.said = item[t],
                                                                  !.index = obj[B].front_idx]]
            /\ pc' = [pc EXCEPT ![t] = "print_loop"]
    /\ UNCHANGED <<buf, item, ghost, empty_slots, full_slots, mutex_lock, mainst>>

\* for (...; i < current_count; i++) { cout << items[index];
\* index = (index + 1) % max_size; }, one iteration or the exit of the loop.
pr_loop(t) ==
    /\ pc[t] = "print_loop"
    /\ IF printed[t].i < obj[B].current_count
       THEN /\ \E v \in ReadOutcomes(Cell(heap[obj[B].items].cells, printed[t].index)) :
                 printed' = [printed EXCEPT
                               ![t].line = Append(@, v),
                               ![t].i = @ + 1,
                               ![t].index = CMod(@ + 1, obj[B].max_size)]
            /\ UNCHANGED pc
       ELSE /\ pc' = [pc EXCEPT ![t] = "unlock"]
            /\ UNCHANGED printed
    /\ UNCHANGED <<buf, item, ghost, empty_slots, full_slots, mutex_lock, mainst>>

\* One step of a producer whose printing is followed.
producer_printing(t) ==
    \/ u_usleep(t)
    \/ p_sem_wait(t)
    \/ u_mutex_lock(t)
    \/ ins_lock(t)
    \/ ins_check(t)
    \/ ins_rear(t)
    \/ ins_store(t)
    \/ ins_incr(t)
    \/ ins_notify(t)
    \/ u_ret(t)
    \/ pr_begin(t)
    \/ pr_loop(t)
    \/ u_mutex_unlock(t)
    \/ p_sem_post(t)

\* One step of a consumer whose printing is followed.
consumer_printing(t) ==
    \/ u_usleep(t)
    \/ c_sem_wait(t)
    \/ u_mutex_lock(t)
    \/ rem_lock(t)
    \/ rem_check(t)
    \/ rem_read(t)
    \/ rem_front(t)
    \/ rem_decr(t)
    \/ rem_notify(t)
    \/ u_ret(t)
    \/ pr_begin(t)
    \/ pr_loop(t)
    \/ u_mutex_unlock(t)
    \/ c_sem_post(t)

NextPrint ==
    \/ \E t \in Producers : producer_printing(t)
    \/ \E t \in Consumers : consumer_printing(t)

SpecPrint == InitCoord /\ [][NextPrint]_vars

\* ============================================================ the shutdown
\* The threads of the coordination layer run while main's sleep ends and main
\* destroys the semaphores and the mutex and returns. main joins no thread.

\* The statements at which a thread is inside, or about to call, sem_wait,
\* pthread_mutex_lock, pthread_mutex_unlock or sem_post.
AtSyncCall == {"sem_wait", "mutex_lock", "unlock", "post"}

\* The semaphores and the mutex are destroyed and the process still runs.
Destroyed == mainst.pc = "return"

\* A thread uses a destroyed semaphore or mutex: the behaviour is undefined.
\* The call may act as on a live object (the thread's usual step), or the
\* process crashes.
u_use_destroyed(t) ==
    /\ Destroyed
    /\ pc[t] \in AtSyncCall
    /\ mainst' = [mainst EXCEPT !.pc = "crashed"]
    /\ UNCHANGED <<rest, empty_slots, full_slots, mutex_lock, printed>>

NextShutdown ==
    \/ /\ mainst.pc \notin {"exited", "crashed"}
       /\ NextCoord
    \/ m_sleep
    \/ m_destroy
    \/ m_return
    \/ \E t \in Threads : u_use_destroyed(t)

SpecShutdown == InitCoord /\ [][NextShutdown]_vars

\* ===================================================== the concurrent claims
PastInsertWait == {"rear", "store", "incr", "notify", "ret"}
PastRemoveWait == {"read", "front", "decr", "notify", "ret"}
Occurrences(s, v) == Cardinality({i \in 1..Len(s) : s[i] = v})
LiveSlots(o) == {CMod(o.front_idx + i, o.max_size) : i \in 0..(o.current_count - 1)}
Pending == SubSeq(inserted, Len(removed) + 1, Len(inserted))

\* C1: in every reachable state of any interleaving of insert_item and
\* remove_item calls on one Buffer of capacity C >= 1, 0 <= count <= C.
C1_CountInRange ==
    /\ obj[B].max_size >= 1
    /\ 0 <= obj[B].current_count
    /\ obj[B].current_count <= obj[B].max_size

\* The buffer is full again after a remove_item call has returned.
C1_Witness ==
    /\ is_full(obj[B])
    /\ Len(removed) > 0
    /\ mutex = NoThread

C3_CapacityBoundary ==
    /\ \A p \in Producers :
          (pc[p] \in PastInsertWait /\ snap[p].blocked) => Len(removed) > snap[p].n
    /\ \A c \in Consumers :
          (pc[c] \in PastRemoveWait /\ snap[c].blocked) => Len(inserted) > snap[c].n

\* An insert_item call that started on a full buffer is about to write, while
\* a remove_item call that started on an empty buffer has returned before.
C3_Witness ==
    /\ \E p \in Producers : pc[p] = "store" /\ snap[p].blocked
    /\ Len(removed) > 0

\* C4: no value is removed twice, no value is returned that was not inserted,
\* and once MaxItems values have been removed every produced value has been
\* removed exactly once.
C4_NoLossNoDup ==
    /\ \A v \in Items : Occurrences(removed, v) <= 1
    /\ Range(removed) \subseteq Range(inserted)
    /\ Len(removed) = MaxItems => \A v \in Tags : Occurrences(removed, v) = 1

\* The run is over: every produced value was removed and every thread is idle.
C4_Witness ==
    /\ Len(removed) = MaxItems
    /\ Len(inserted) = MaxItems
    /\ \A t \in Threads : pc[t] = "idle"

\* C9: whenever the internal lock is free: head is in [0, C); when count > 0,
\* tail is in [0, C) and tail = (head + count - 1) mod C; the count slots
\* head, head+1, ... (mod C) are pairwise distinct and hold exactly the values
\* inserted and not yet removed, oldest first; is_empty iff count = 0 and
\* is_full iff count = C.
C9_Structure ==
    mutex = NoThread =>
        LET o == obj[B] IN
        /\ o.front_idx \in 0..(o.max_size - 1)
        /\ o.current_count > 0 =>
              /\ o.rear_idx \in 0..(o.max_size - 1)
              /\ o.rear_idx = CMod(o.front_idx + o.current_count - 1, o.max_size)
        /\ Cardinality(LiveSlots(o)) = o.current_count
        /\ Contents(o, heap) = Pending
        /\ is_empty(o) <=> (o.current_count = 0)
        /\ is_full(o) <=> (o.current_count = o.max_size)

\* The lock is free and the oldest live item is not at slot 0.
C9_Witness ==
    /\ mutex = NoThread
    /\ obj[B].current_count > 0
    /\ obj[B].front_idx > 0

\* C10: no wake-up is lost. A consumer waits on full_cond while the buffer
\* holds items only if a producer is about to notify or another consumer is
\* on its way to take an item, and symmetrically for empty_cond; and under
\* weak fairness every insert_item and remove_item call returns.
Running(t) == pc[t] # "idle" /\ ~(pc[t] = "wait" /\ t \in empty_cond \cup full_cond)
NoLostWakeup ==
    /\ (full_cond # {} /\ ~is_empty(obj[B])) =>
          \/ \E p \in Producers : pc[p] \in {"notify"}
          \/ \E c \in Consumers : Running(c)
    /\ (empty_cond # {} /\ ~is_full(obj[B])) =>
          \/ \E c \in Consumers : pc[c] \in {"notify"}
          \/ \E p \in Producers : Running(p)

AllReturned ==
    /\ Len(inserted) = MaxItems
    /\ Len(removed) = MaxItems
    /\ \A t \in Threads : pc[t] = "idle"

C10_Standalone == []NoLostWakeup /\ <>AllReturned

\* A producer blocked on "not full" and a consumer at work, and later a
\* consumer blocked on "not empty".
C10_Witness ==
    /\ \E p \in Producers : p \in empty_cond
    /\ \E c \in Consumers : pc[c] = "decr"

\* ===================================================== the sequential claims
\* C5: on a fresh buffer of capacity C, C inserts followed by removes return
\* the inserted values in insertion order, is_full() is false after each of
\* the removes, and is_empty() is true after the C-th.
C5_RoundTrip ==
    \A b \in BufIds :
        (cl.origin[b] = "ctor" /\ cl.phase[b] = "drain") =>
            /\ Len(cl.ins[b]) = obj[b].max_size
            /\ cl.out[b] = SubSeq(cl.ins[b], 1, Len(cl.out[b]))
            /\ ~cl.fullSeen[b]
            /\ ~is_full(obj[b])
            /\ Len(cl.out[b]) = obj[b].max_size => is_empty(obj[b])

\* A buffer of two slots or more was filled and then emptied.
C5_Witness ==
    /\ cl.origin[B] = "ctor"
    /\ cl.phase[B] = "drain"
    /\ obj[B].max_size >= 2
    /\ Len(cl.out[B]) = obj[B].max_size

\* C6: a copy has the logical contents its source had: the same count, the
\* same values in the same FIFO order (in its slots, and as remove_item
\* returns them), and an untouched copy that holds items has its head at 0.
C6_CopySameContents ==
    \A b \in BufIds :
        (obj[b].alive /\ cl.origin[b] = "copy") =>
            /\ obj[b].current_count = Len(PendingOf(b))
            /\ Contents(obj[b], heap) = PendingOf(b)
            /\ cl.out[b] = SubSeq(cl.ins[b], 1, Len(cl.out[b]))
            /\ (cl.nops[b] = 0 /\ obj[b].current_count > 0) => obj[b].front_idx = 0

\* C7: an insert_item or remove_item call on one of the two buffers leaves
\* the fields and the array of the other one as they were.
C7_CopyIndependent ==
    [][\A b \in BufIds :
          (seq_insert(b) \/ seq_remove(b)) =>
              /\ obj'[Other(b)] = obj[Other(b)]
              /\ obj[Other(b)].alive =>
                    heap'[obj[Other(b)].items] = heap[obj[Other(b)].items]]_vars

\* The copy was inserted into and removed from after it was made, and the
\* original still holds items.
C7_Witness ==
    /\ cl.origin["copy"] = "copy"
    /\ cl.nops["copy"] >= 2
    /\ Len(cl.out["copy"]) >= 1
    /\ obj[B].alive
    /\ obj[B].current_count > 0
    /\ obj["copy"].current_count > 0

\* C8: no Buffer with a capacity <= 0 exists, and no buffer on which
\* insert_item or remove_item can get past its wait loop has one.
C8_NonPositiveRejected ==
    \A b \in BufIds :
        obj[b].alive =>
            /\ obj[b].max_size >= 1
            /\ (~is_full(obj[b]) \/ ~is_empty(obj[b])) => obj[b].max_size >= 1

\* =================================================== the coordination claims
\* Producers that hold an empty-slot permit whose item is not yet counted:
\* between sem_wait(&empty_slots) and count++.
PromisedInserts ==
    {t \in Producers :
        pc[t] \in {"mutex_lock", "lock", "check", "wait", "rear", "store", "incr"}}

\* Consumers that hold a full-slot permit whose item is still counted: between
\* sem_wait(&full_slots) and count--.
PromisedRemoves ==
    {t \in Consumers :
        pc[t] \in {"mutex_lock", "lock", "check", "wait", "read", "front", "decr"}}

AtOuterBlockingCall(t) == pc[t] \in {"sleep", "sem_wait", "mutex_lock"}

\* The thread is at the unique_lock of insert_item or remove_item (or is
\* reacquiring it after a wait) and another thread owns the buffer's mutex.
BlockedOnBufferMutex(t) ==
    /\ pc[t] \in {"lock", "wait"}
    /\ t \notin empty_cond \cup full_cond
    /\ mutex \notin {NoThread, t}

\* The thread is inside empty_cond.wait or full_cond.wait.
InCondWait(t) == pc[t] = "wait"

\* C12: a thread that holds mutex_lock is not sleeping, not at a sem_wait, not
\* blocked on the buffer's mutex and not in a condition wait; a thread that
\* holds the buffer's mutex is not sleeping and not blocked on any other
\* acquisition.
C12_NoLockAcrossBlocking ==
    \A t \in Threads :
        /\ mutex_lock = t =>
              /\ pc[t] \notin {"sleep", "sem_wait"}
              /\ ~BlockedOnBufferMutex(t)
              /\ ~InCondWait(t)
        /\ mutex = t =>
              /\ ~AtOuterBlockingCall(t)
              /\ ~InCondWait(t)

\* A thread holds both locks while another is blocked at pthread_mutex_lock.
C12_Witness ==
    \E t \in Threads :
        /\ mutex_lock = t
        /\ mutex = t
        /\ \E u \in Threads \ {t} : pc[u] = "mutex_lock"

\* The phase of a thread in its loop: asleep in usleep, at the sem_wait for
\* its permit, or between having the permit and the end of sem_post.
Phase(t) ==
    CASE pc[t] = "sleep" -> "SLEEPING"
      [] pc[t] = "sem_wait" -> "WAITING_FOR_PERMIT"
      [] pc[t] \in InsideRegion \cup {"mutex_lock", "post"} -> "IN_CRITICAL_SECTION"
      [] OTHER -> "TERMINATED"

NextPhase(ph) ==
    CASE ph = "SLEEPING" -> "WAITING_FOR_PERMIT"
      [] ph = "WAITING_FOR_PERMIT" -> "IN_CRITICAL_SECTION"
      [] ph = "IN_CRITICAL_SECTION" -> "SLEEPING"
      [] OTHER -> "TERMINATED"

\* Every step leaves a thread in its phase or moves it to the next one, and
\* the phase is always one of the three of the loop.
PhaseStep ==
    \A t \in Threads :
        /\ Phase(t)' \in {Phase(t), NextPhase(Phase(t))}
        /\ Phase(t)' # "TERMINATED"

\* Some thread can take a step.
SomeUnitCanRun == ENABLED <<NextCoord>>_vars

InsertHappens == \E t \in Producers : ins_incr(t)
RemoveHappens == \E t \in Consumers : rem_decr(t)

\* C13: each thread only cycles SLEEPING -> WAITING_FOR_PERMIT ->
\* IN_CRITICAL_SECTION -> SLEEPING and never terminates; in every state some
\* thread can run (no deadlock); and, every runnable thread being scheduled
\* eventually, items are inserted and removed infinitely often.
C13_CycleForever ==
    /\ [][PhaseStep]_vars
    /\ []SomeUnitCanRun
    /\ []<><<InsertHappens>>_vars
    /\ []<><<RemoveHappens>>_vars

\* The producer is blocked at sem_wait with no empty permit left after the
\* consumer has already removed an item: only the consumer can run.
C13_Witness ==
    /\ empty_slots = 0
    /\ \E t \in Producers : pc[t] = "sem_wait"
    /\ obj[B].front_idx > 0
    /\ \E t \in Consumers : pc[t] = "sleep"

\* ============================================================ the main claims
\* A sleep time or a thread count is well formed when it is a non-empty
\* sequence of digits.
IsNumber(str) == str # << >> /\ \A i \in 1..Len(str) : str[i] \in Digits

\* The wrong number of arguments, or an argument that is not a non-negative
\* number.
Malformed(m) ==
    \/ argc(m) # 4
    \/ \E i \in 1..Len(m.args) : ~IsNumber(m.args[i])

\* C14: with a malformed command line no semaphore is initialised and no
\* thread is created, and main ends with the usage message and a non-zero
\* exit status.
C14_MalformedRejected ==
    Malformed(mainst) =>
        /\ ~mainst.sems
        /\ mainst.producers = 0
        /\ mainst.consumers = 0
        /\ mainst.pc = "exited" => mainst.said = "usage" /\ mainst.exit # 0

\* ================================================= effect and frame claims
\* The last element of a non-empty sequence.
Last(q) == q[Len(q)]

\* C15: when insert_item runs on a buffer with count < C, it stores the item
\* at slot (tail + 1) mod C, sets tail to that slot, adds exactly 1 to count
\* and returns true; head, capacity, the array and every other slot stay as
\* they were, and the slot written was not a live slot.
C15_InsertEffectFrame ==
    [][\A b \in BufIds :
          (seq_insert(b) /\ obj[b].current_count < obj[b].max_size) =>
              LET o == obj[b]
                  slot == (o.rear_idx + 1) % o.max_size
                  before == heap[o.items].cells
                  after == heap'[o.items].cells
              IN  /\ after[slot] = Last(cl'.ins[b])
                  /\ obj'[b].rear_idx = slot
                  /\ obj'[b].current_count = o.current_count + 1
                  /\ cl'.ret[b] = "true"
                  /\ obj'[b].front_idx = o.front_idx
                  /\ obj'[b].max_size = o.max_size
                  /\ obj'[b].items = o.items
                  /\ DOMAIN after = DOMAIN before
                  /\ \A i \in DOMAIN before \ {slot} : after[i] = before[i]
                  /\ slot \notin LiveSlots(o)]_vars

\* The tail has wrapped: the last insert wrote slot 0 of a buffer whose head is
\* further on, and filled it.
C15_Witness ==
    \E b \in BufIds :
        /\ obj[b].alive
        /\ cl.ret[b] = "true"
        /\ obj[b].max_size >= 2
        /\ obj[b].rear_idx < obj[b].front_idx
        /\ obj[b].current_count = obj[b].max_size

\* C16: when remove_item runs on a buffer with count > 0, it hands back the
\* value stored at slot head (for a constructed buffer, the oldest item not
\* yet removed), sets head to (head + 1) mod C, takes exactly 1 from count and
\* returns true; tail, capacity and every slot stay as they were.
C16_RemoveEffectFrame ==
    [][\A b \in BufIds :
          (seq_remove(b) /\ obj[b].current_count > 0) =>
              LET o == obj[b]
                  stored == heap[o.items].cells[o.front_idx]
              IN  /\ stored # Uninit => Last(cl'.out[b]) = stored
                  /\ cl.origin[b] = "ctor" => Last(cl'.out[b]) = Head(PendingOf(b))
                  /\ obj'[b].front_idx = (o.front_idx + 1) % o.max_size
                  /\ obj'[b].current_count = o.current_count - 1
                  /\ cl'.ret[b] = "true"
                  /\ obj'[b].rear_idx = o.rear_idx
                  /\ obj'[b].max_size = o.max_size
                  /\ obj'[b].items = o.items
                  /\ heap' = heap]_vars

\* The head has wrapped: a constructed buffer of two slots or more gave back
\* as many items as it has slots and its head is at slot 0 again.
C16_Witness ==
    /\ cl.origin[B] = "ctor"
    /\ cl.ret[B] = "true"
    /\ obj[B].max_size >= 2
    /\ Len(cl.out[B]) = obj[B].max_size
    /\ obj[B].front_idx = 0

\* ==================================================== the wait-loop claim
\* The condition a call of t waits on holds: the buffer is full for an
\* insert_item, empty for a remove_item.
MustWait(t) ==
    IF t \in Producers
    THEN obj[B].current_count = obj[B].max_size
    ELSE obj[B].current_count = 0

\* insert_item is past its wait loop only with room in the buffer, and
\* remove_item only with an item in it; the loop condition is evaluated by
\* the owner of the mutex.
PastLoopSafe ==
    /\ \A t \in Producers :
          pc[t] \in {"rear", "store", "incr"} =>
              mutex = t /\ obj[B].current_count < obj[B].max_size
    /\ \A t \in Consumers :
          pc[t] \in {"read", "front", "decr"} =>
              mutex = t /\ obj[B].current_count > 0
    /\ \A t \in Threads : pc[t] = "check" => mutex = t

\* A thread that leaves a wait, however it was woken, owns the mutex again
\* and evaluates the loop condition next; a thread that evaluates it while it
\* holds waits (again), releasing the mutex, and otherwise goes on.
RecheckStep ==
    \A t \in Threads :
        /\ (pc[t] = "wait" /\ pc'[t] # "wait") =>
              pc'[t] = "check" /\ mutex' = t
        /\ (pc[t] = "check" /\ pc'[t] # "check") =>
              IF MustWait(t)
              THEN /\ pc'[t] = "wait"
                   /\ mutex' = NoThread
                   /\ t \in empty_cond' \cup full_cond'
              ELSE pc'[t] \in {"rear", "read"}

InRegion == {t \in Threads : pc[t] \in InsideRegion}

\* At most one thread is in the locked region, it is the owner of
\* mutex_lock, and insert_item, remove_item and print_buffer run only there.
MutualExclusion ==
    /\ Cardinality(InRegion) <= 1
    /\ \A t \in Threads :
          pc[t] \in InsideCall \cup {"print"} => mutex_lock = t
    /\ \A t \in Threads : mutex_lock = t <=> t \in InRegion

\* The permit counter t waits on, and the one it posts.
Acquired(t, e, f) == IF t \in Producers THEN e ELSE f
Released(t, e, f) == IF t \in Producers THEN f ELSE e

\* A thread takes mutex_lock in the step after the sem_wait that took its
\* permit, not holding the mutex while it takes the permit; it posts the
\* other permit in the step after its unlock, no longer owning the mutex.
OrderStep ==
    \A t \in Threads :
        /\ (mutex_lock # t /\ mutex_lock' = t) => pc[t] = "mutex_lock"
        /\ (pc[t] # "mutex_lock" /\ pc'[t] = "mutex_lock") =>
              /\ Acquired(t, empty_slots', full_slots')
                     = Acquired(t, empty_slots, full_slots) - 1
              /\ mutex_lock # t
        /\ (pc[t] = "post" /\ pc'[t] # "post") =>
              /\ Released(t, empty_slots', full_slots')
                     = Released(t, empty_slots, full_slots) + 1
              /\ mutex_lock # t
        /\ (pc[t] # "post" /\ pc'[t] = "post") =>
              mutex_lock = t /\ mutex_lock' = NoThread
        /\ (Released(t, empty_slots', full_slots')
               > Released(t, empty_slots, full_slots) /\ pc'[t] # pc[t]) =>
              pc[t] = "post"

\* C18: at most one thread at a time is between acquiring and releasing
\* mutex_lock; every insert_item, remove_item and print_buffer call is made by
\* the owner of mutex_lock; a thread acquires mutex_lock only after its
\* permit and posts the complementary permit only after the unlock.
C18_MutualExclusion == []MutualExclusion /\ [][OrderStep]_vars

\* A thread prints the buffer as owner of mutex_lock while another thread,
\* which has its permit, is blocked at pthread_mutex_lock.
C18_Witness ==
    \E t \in Threads :
        /\ pc[t] = "print"
        /\ mutex_lock = t
        /\ \E u \in Threads \ {t} : pc[u] = "mutex_lock"

\* The threads that have taken a permit and not yet posted the complementary
\* one: between the return of sem_wait and the return of sem_post.
InFlight == {t \in Threads : pc[t] \in InsideRegion \cup {"mutex_lock", "post"}}

\* The values sem_init gives the permits.
PermitsStart ==
    /\ empty_slots = obj[B].max_size
    /\ full_slots = 0

PermitConservation ==
    /\ (InFlight = {} /\ obj[B].current_count = 0) => PermitsStart
    /\ empty_slots + full_slots + Cardinality(InFlight) = obj[B].max_size
    /\ empty_slots \in 0..obj[B].max_size
    /\ full_slots \in 0..obj[B].max_size
    /\ full_slots <= obj[B].current_count
    /\ empty_slots <= obj[B].max_size - obj[B].current_count

\* C19: while no thread holds a permit and the buffer is empty, as at the
\* start, the empty-slot permits are the capacity and the full-slot permits 0;
\* in every state empty_slots + full_slots + the number of threads between
\* their sem_wait and their sem_post is the capacity, both counters are in
\* 0..capacity, full_slots <= count and empty_slots <= capacity - count.
C19_PermitConservation == PermitConservation

\* Permits of both kinds are available while every thread holds one.
C19_Witness ==
    /\ empty_slots > 0
    /\ full_slots > 0
    /\ InFlight = Threads

\* C20: in the coordination layer no thread is ever in a condition wait of
\* the buffer: when a producer is in insert_item before or at the loop
\* condition, as owner of mutex_lock, the buffer is not full, and when a
\* consumer is in remove_item there it is not empty.
C20_NoConditionWait ==
    /\ empty_cond = {}
    /\ full_cond = {}
    /\ \A t \in Threads : pc[t] # "wait"
    /\ \A t \in Producers :
          pc[t] \in {"lock", "check"} =>
              mutex_lock = t /\ obj[B].current_count < obj[B].max_size
    /\ \A t \in Consumers :
          pc[t] \in {"lock", "check"} =>
              mutex_lock = t /\ obj[B].current_count > 0

\* A producer evaluates is_full() with one free slot left, after a consumer
\* has removed an item.
C20_Witness ==
    /\ \E t \in Producers :
          /\ pc[t] = "check"
          /\ mutex_lock = t
          /\ obj[B].current_count = obj[B].max_size - 1
    /\ obj[B].front_idx > 0

\* ==================================================== the one-sided runs
\* The threads main creates in this run.
RunProducers == 1..mainst.num_producers
RunConsumers == (NumProducers + 1)..(NumProducers + mainst.num_consumers)

ProducersOnly == mainst.num_producers >= 1 /\ mainst.num_consumers = 0
ConsumersOnly == mainst.num_producers = 0 /\ mainst.num_consumers >= 1

\* Every producer is blocked in sem_wait(&empty_slots): no permit is left,
\* the buffer is full and mutex_lock is free.
ProducersStalled ==
    /\ \A t \in RunProducers : pc[t] = "sem_wait"
    /\ empty_slots = 0
    /\ obj[B].current_count = obj[B].max_size
    /\ mutex_lock = NoThread
    /\ mutex = NoThread

\* Every consumer is blocked in sem_wait(&full_slots) on the empty buffer.
ConsumersStalled ==
    /\ \A t \in RunConsumers : pc[t] = "sem_wait"
    /\ full_slots = 0
    /\ obj[B].current_count = 0
    /\ mutex_lock = NoThread

\* In a one-sided run no thread is in a wait of the buffer, no item is ever
\* removed, and without producers no consumer gets past its sem_wait.
OneSidedSafe ==
    /\ (ProducersOnly \/ ConsumersOnly) =>
          /\ \A t \in Threads : pc[t] # "wait"
          /\ obj[B].front_idx = 0
          /\ obj[B].current_count <= obj[B].max_size
    /\ ConsumersOnly =>
          /\ obj[B].current_count = 0
          /\ obj[B].rear_idx = -1
          /\ \A t \in Threads : pc[t] \in {"idle", "sleep", "sem_wait"}

\* In a run of producers only the count never goes down: it is the number of
\* inserts made so far.
OnlyInserts == ProducersOnly => obj'[B].current_count >= obj[B].current_count

\* C21: with producers and no consumer exactly 5 (the capacity) inserts
\* happen, and from then on every producer is blocked at the empty-slot
\* permit for ever, mutex_lock free and count = capacity; with consumers and
\* no producer no remove ever happens and from some point on every consumer
\* is blocked at the full-slot permit, count = 0. No thread waits inside the
\* buffer.
C21_OneSidedStall ==
    /\ []OneSidedSafe
    /\ [][OnlyInserts]_vars
    /\ <>[](ProducersOnly => ProducersStalled)
    /\ <>[](ConsumersOnly => ConsumersStalled)

\* The producers of a run without consumers have filled the buffer and are
\* all blocked at their sem_wait while main sleeps.
C21_Witness ==
    /\ ProducersOnly
    /\ ProducersStalled
    /\ mainst.producers = mainst.num_producers
    /\ mainst.pc = "sleep"

\* ====================================================== the printed lines
\* The statements between the effect of an insert_item or remove_item on
\* current_count and the end of the print_buffer that follows it.
AfterEffect == {"notify", "ret", "print", "print_loop", "unlock"}

\* The slot before the head: where the item removed last was.
SlotBeforeHead(o) == CMod(o.front_idx + o.max_size - 1, o.max_size)

\* What thread t has printed agrees with the buffer as it is: the items
\* printed so far are the first FIFO items, and a finished line is all of
\* them, or the empty marker for an empty buffer.
PrintedAsIs(t) ==
    LET now == Contents(obj[B], heap)
        p == printed[t]
    IN  /\ pc[t] = "print_loop" =>
              /\ p.i = Len(p.line)
              /\ p.i <= Len(now)
              /\ p.line = SubSeq(now, 1, p.i)
              /\ p.said = item[t]
        /\ pc[t] = "unlock" =>
              /\ p.line = now
              /\ p.empty <=> obj[B].current_count = 0
              /\ p.said = item[t]
              /\ t \in Producers => Last(p.line) = item[t]
              /\ t \in Consumers =>
                    /\ Len(p.line) = obj[B].current_count
                    /\ SlotBeforeHead(obj[B]) \notin LiveSlots(obj[B])

C23_ShutdownNoRace ==
    /\ Destroyed =>
          /\ \A t \in Threads : pc[t] \notin AtSyncCall
          /\ mutex_lock = NoThread
    /\ mainst.pc # "crashed"

====
